---- MODULE Spec2Model ----
(***************************************************************************)
(* A model of the lotto scraper: the text helpers of utils.py, the record  *)
(* model of models.py, the retry decorator, and the scraping run of        *)
(* lotto_scraper.py as driven by main.py.                                  *)
(*                                                                         *)
(* Texts are sequences of one-character strings.  The Korean characters    *)
(* the source matches literally are written as named characters (cDeung,   *)
(* cChong, ...).  None is Python's None.                                   *)
(***************************************************************************)
EXTENDS Integers, Sequences, FiniteSets, TLC

VARIABLES
    pc,            \* position of the run in main / scrape_all_rounds
    args,          \* the parsed command line: start, end, delay, max_retries
    end,           \* scrape_all_rounds' end once resolved
    round_num,     \* the loop variable of scrape_all_rounds
    req,           \* the wrapper of the running _make_request call
    response,      \* the page the last request returned (0 before), by its index
    lotto_data,    \* scrape_round's result for the current round
    results,       \* scrape_all_rounds' list of records
    failed_rounds, \* scrape_all_rounds' list of failed rounds
    log,           \* the requests and sleeps made since the current round began
    served,        \* per round attempted so far, the page served (0: no response)
    outcome,       \* how main ended: its lotto_data, the exit code, the csv
    vin,           \* the arguments of a LottoData construction under test
    vout,          \* its result
    rin,           \* a retry_on_exception configuration under test
    rst            \* the state of the wrapper call under test

vars == <<pc, args, end, round_num, req, response, lotto_data, results,
          failed_rounds, log, served, outcome, vin, vout, rin, rst>>

None == "None"

(***************************************************************************)
(* Characters and texts                                                    *)
(***************************************************************************)
Digits == {"0", "1", "2", "3", "4", "5", "6", "7", "8", "9"}

DigitVal(c) ==
    CASE c = "0" -> 0 [] c = "1" -> 1 [] c = "2" -> 2 [] c = "3" -> 3
      [] c = "4" -> 4 [] c = "5" -> 5 [] c = "6" -> 6 [] c = "7" -> 7
      [] c = "8" -> 8 [] c = "9" -> 9

IsDigit(c) == c \in Digits

Least(S) == CHOOSE i \in S : \A j \in S : i <= j

\* The character at position i of s, or None past its end.
At(s, i) == IF i >= 1 /\ i <= Len(s) THEN s[i] ELSE None

\* int(s) for a text of digits.
RECURSIVE IntOf(_)
IntOf(s) ==
    IF s = <<>> THEN 0
    ELSE 10 * IntOf(SubSeq(s, 1, Len(s) - 1)) + DigitVal(s[Len(s)])

\* str.zfill(2) of a text of one or two characters.
zfill2(s) == IF Len(s) < 2 THEN <<"0">> \o s ELSE s

\* str.strip(): leading and trailing blanks removed.
RECURSIVE strip(_)
strip(s) ==
    IF s = <<>> THEN s
    ELSE IF s[1] = " " THEN strip(Tail(s))
    ELSE IF s[Len(s)] = " " THEN strip(SubSeq(s, 1, Len(s) - 1))
    ELSE s

(***************************************************************************)
(* utils.py                                                                *)
(***************************************************************************)
\* clean_number_string removing commas and blanks only, and giving 0 for a
\* text that then still holds something other than digits.
clean_number_string_commas_only(text) ==
    IF text = None \/ text = <<>> THEN 0
    ELSE LET cleaned == SelectSeq(text, LAMBDA c : c \notin {",", " "})
         IN  IF cleaned = <<>> \/ \E k \in 1..Len(cleaned) : ~IsDigit(cleaned[k])
             THEN 0 ELSE IntOf(cleaned)

clean_number_string(text) ==
    IF text = None \/ text = <<>> THEN 0
    ELSE LET cleaned == SelectSeq(text, IsDigit)
         IN  IF cleaned = <<>> THEN 0 ELSE IntOf(cleaned)

\* One regular-expression match of \d{4} S1 \d{1,2} S2 \d{1,2} starting at
\* position i of s, S1 and S2 the sets of separators allowed: whether there
\* is one, its groups and the position after it.  \d{1,2} is greedy and gives
\* a digit back when the rest does not match.
NoMatch == [found |-> FALSE]

DayAt(s, j) ==
    IF ~IsDigit(At(s, j)) THEN NoMatch
    ELSE IF IsDigit(At(s, j + 1))
         THEN [found |-> TRUE, text |-> SubSeq(s, j, j + 1), next |-> j + 2]
         ELSE [found |-> TRUE, text |-> SubSeq(s, j, j), next |-> j + 1]

\* The groups of the match at i, day[ml] being the day that follows a month of
\* ml digits and its separator.
DateGroups(s, i, day) ==
    LET ml == IF day[2].found THEN 2 ELSE 1
    IN  IF ~day[ml].found THEN NoMatch
        ELSE [found |-> TRUE,
              year  |-> SubSeq(s, i, i + 3),
              month |-> SubSeq(s, i + 5, i + 4 + ml),
              day   |-> day[ml].text,
              first |-> i,
              next  |-> day[ml].next]

DateMatchAt(s, i, S1, S2) ==
    IF ~(\A k \in 0..3 : IsDigit(At(s, i + k))) \/ At(s, i + 4) \notin S1 THEN NoMatch
    ELSE DateGroups(s, i, [ml \in 1..2 |->
                              IF /\ \A k \in 1..ml : IsDigit(At(s, i + 4 + k))
                                 /\ At(s, i + 5 + ml) \in S2
                              THEN DayAt(s, i + 6 + ml) ELSE NoMatch])

\* The first of the matches ms that is one.
FirstFound(ms) ==
    LET hits == {i \in DOMAIN ms : ms[i].found}
    IN  IF hits = {} THEN NoMatch ELSE ms[Least(hits)]

\* re.search: the match at the leftmost position that has one.
DateSearch(s, S1, S2) ==
    FirstFound([i \in 1..Len(s) |-> DateMatchAt(s, i, S1, S2)])

\* date_patterns without a pattern for the slash.
date_patterns_no_slash == << {"."}, {"-"}, {} >>

date_patterns == << {"."}, {"-"}, {"/"} >>

\* The first pattern of date_patterns that matches date_str.
DatePatternSearch(date_str) ==
    FirstFound([p \in 1..3 |-> DateSearch(date_str, date_patterns[p], date_patterns[p])])

\* FormatDate without the zero padding of the month and the day.
FormatDateNoPad(date_str, m) ==
    IF ~m.found THEN date_str
    ELSE m.year \o <<"-">> \o m.month \o <<"-">> \o m.day

\* parse_date_string on FormatDateNoPad.
parse_date_string_no_pad(date_str) ==
    IF date_str = None \/ date_str = <<>> THEN <<>>
    ELSE FormatDateNoPad(date_str, DatePatternSearch(date_str))

\* f"{year}-{month.zfill(2)}-{day.zfill(2)}" of the match m, date_str
\* unchanged without a match.
FormatDate(date_str, m) ==
    IF ~m.found THEN date_str
    ELSE m.year \o <<"-">> \o zfill2(m.month) \o <<"-">> \o zfill2(m.day)

parse_date_string(date_str) ==
    IF date_str = None \/ date_str = <<>> THEN <<>>
    ELSE FormatDate(date_str, DatePatternSearch(date_str))

Range(s) == {s[i] : i \in 1..Len(s)}

\* validate_winning_numbers without its check for duplicates.
validate_winning_numbers_no_dup(numbers) ==
    IF Len(numbers) # 6 THEN FALSE
    ELSE IF \E i \in 1..Len(numbers) : ~(1 <= numbers[i] /\ numbers[i] <= 45) THEN FALSE
    ELSE TRUE

validate_winning_numbers(numbers) ==
    IF Len(numbers) # 6 THEN FALSE
    ELSE IF \E i \in 1..Len(numbers) : ~(1 <= numbers[i] /\ numbers[i] <= 45) THEN FALSE
    ELSE IF Cardinality(Range(numbers)) # Len(numbers) THEN FALSE
    ELSE TRUE

\* validate_bonus_number with the upper end of the range left open.
validate_bonus_number_no_upper(bonus, winning_numbers) ==
    IF ~(1 <= bonus) THEN FALSE
    ELSE IF bonus \in Range(winning_numbers) THEN FALSE
    ELSE TRUE

validate_bonus_number(bonus, winning_numbers) ==
    IF ~(1 <= bonus /\ bonus <= 45) THEN FALSE
    ELSE IF bonus \in Range(winning_numbers) THEN FALSE
    ELSE TRUE

(***************************************************************************)
(* utils.retry_on_exception                                                *)
(***************************************************************************)
RECURSIVE Pow2(_)
Pow2(n) == IF n <= 0 THEN 1 ELSE 2 * Pow2(n - 1)

NoException == [kind |-> "none", id |-> 0]

\* The wrapper as it is entered: attempt is the loop variable, events what it
\* did so far (calls of func and sleeps), in order.
WrapperStart ==
    [status |-> "running", attempt |-> 0, last_exception |-> NoException,
     events |-> <<>>]

Sleep(secs) == [ev |-> "sleep", secs |-> secs]
Call(n) == [ev |-> "call", n |-> n]

\* wrapper with a sleep made after the last failure too.
wrapper_sleep_after_last(max_retries, delay, w, res) ==
    IF w.attempt >= max_retries THEN [w EXCEPT !.status = "returned_none"]
    ELSE IF res.ok
         THEN [w EXCEPT !.status = "returned",
                        !.events = Append(@, Call(w.attempt + 1))]
    ELSE [w EXCEPT !.last_exception = res.exc,
                   !.attempt = @ + 1,
                   !.status = IF w.attempt < max_retries - 1 THEN "running" ELSE "raised",
                   !.events = @ \o <<Call(w.attempt + 1), Sleep(delay * Pow2(w.attempt))>>]

\* One turn of the wrapper's loop, res the outcome of this call of func:
\* [ok |-> TRUE] or [ok |-> FALSE, exc |-> the exception raised].
wrapper(max_retries, delay, w, res) ==
    IF w.attempt >= max_retries THEN [w EXCEPT !.status = "returned_none"]
    ELSE IF res.ok
         THEN [w EXCEPT !.status = "returned",
                        !.events = Append(@, Call(w.attempt + 1))]
    ELSE IF w.attempt < max_retries - 1
         THEN [w EXCEPT !.last_exception = res.exc,
                        !.attempt = @ + 1,
                        !.events = @ \o <<Call(w.attempt + 1),
                                          Sleep(delay * Pow2(w.attempt))>>]
    ELSE [w EXCEPT !.last_exception = res.exc,
                   !.attempt = @ + 1,
                   !.status = "raised",
                   !.events = Append(@, Call(w.attempt + 1))]

(***************************************************************************)
(* models.py                                                               *)
(***************************************************************************)
NonZero == Digits \ {"0"}

\* The alternatives of strptime's %d, in its order: 3[0-1], [1-2]\d, 0[1-9],
\* [1-9], " [1-9]".  The length of the first that matches at j, 0 for none.
StrptimeDayLen(s, j) ==
    IF At(s, j) = "3" /\ At(s, j + 1) \in {"0", "1"} THEN 2
    ELSE IF At(s, j) \in {"1", "2"} /\ IsDigit(At(s, j + 1)) THEN 2
    ELSE IF At(s, j) = "0" /\ At(s, j + 1) \in NonZero THEN 2
    ELSE IF At(s, j) \in NonZero THEN 1
    ELSE IF At(s, j) = " " /\ At(s, j + 1) \in NonZero THEN 2
    ELSE 0

\* The alternatives of %m, in its order: 1[0-2], 0[1-9], [1-9]; an alternative
\* is kept when the "-" and a day follow it.
StrptimeMonthLens(s) ==
    << IF At(s, 6) = "1" /\ At(s, 7) \in {"0", "1", "2"} THEN 2 ELSE 0,
       IF At(s, 6) = "0" /\ At(s, 7) \in NonZero THEN 2 ELSE 0,
       IF At(s, 6) \in NonZero THEN 1 ELSE 0 >>

IsLeap(y) == y % 4 = 0 /\ (y % 100 # 0 \/ y % 400 = 0)

DaysInMonth(y, m) ==
    IF m = 2 THEN (IF IsLeap(y) THEN 29 ELSE 28)
    ELSE IF m \in {4, 6, 9, 11} THEN 30 ELSE 31

\* datetime.strptime(draw_date, '%Y-%m-%d') returns, i.e. raises no ValueError:
\* the format's regular expression matches a prefix, nothing remains after it,
\* and the date exists.
\* The date of year y, month m and day d exists (m is 1..12 and d at least 1
\* by the format).
DateExists(y, m, d) == y >= 1 /\ d <= DaysInMonth(y, m)

\* A month of ml characters and a day of dl end the text and name a date.
StrptimeFields(s, ml, dl) ==
    /\ 6 + ml + dl = Len(s)
    /\ DateExists(IntOf(SubSeq(s, 1, 4)),
                  IntOf(SubSeq(s, 6, 5 + ml)),
                  IntOf(SelectSeq(SubSeq(s, 7 + ml, 6 + ml + dl), IsDigit)))

\* The first alternative of the month, of lengths lens, that a "-" and a day,
\* of lengths dlen, follow.
StrptimeAlternative(s, lens, dlen) ==
    LET fits == {a \in 1..3 : dlen[a] > 0}
    IN  fits # {} /\ StrptimeFields(s, lens[Least(fits)], dlen[Least(fits)])

StrptimeMonth(s, lens) ==
    StrptimeAlternative(s, lens,
        [a \in 1..3 |-> IF lens[a] > 0 /\ At(s, 6 + lens[a]) = "-"
                        THEN StrptimeDayLen(s, 7 + lens[a]) ELSE 0])

strptime(s) ==
    /\ \A k \in 1..4 : IsDigit(At(s, k))
    /\ At(s, 5) = "-"
    /\ StrptimeMonth(s, StrptimeMonthLens(s))

\* The ValueError LottoData.__post_init__ raises, by its message; NoError when
\* every check passes.
NoError == "NoError"
ErrWinningCount == "WinningCount"
ErrWinningRange == "WinningRange"
ErrBonusRange == "BonusRange"
ErrBonusDuplicate == "BonusDuplicate"
ErrWinningDuplicate == "WinningDuplicate"
ErrDateFormat == "DateFormat"
ErrWinners == "WinnersNegative"
ErrAmount == "AmountNegative"

\* _validate_numbers with the duplicates among the winning numbers checked
\* before the bonus.
LottoData_validate_numbers_dup_first(winning_numbers, bonus_number) ==
    IF Len(winning_numbers) # 6 THEN ErrWinningCount
    ELSE IF \E i \in 1..Len(winning_numbers) :
                ~(1 <= winning_numbers[i] /\ winning_numbers[i] <= 45)
         THEN ErrWinningRange
    ELSE IF Cardinality(Range(winning_numbers)) # Len(winning_numbers)
         THEN ErrWinningDuplicate
    ELSE IF ~(1 <= bonus_number /\ bonus_number <= 45) THEN ErrBonusRange
    ELSE IF bonus_number \in Range(winning_numbers) THEN ErrBonusDuplicate
    ELSE NoError

\* _validate_numbers without the check of the bonus against the winning
\* numbers.
LottoData_validate_numbers_no_bonus_dup(winning_numbers, bonus_number) ==
    IF Len(winning_numbers) # 6 THEN ErrWinningCount
    ELSE IF \E i \in 1..Len(winning_numbers) :
                ~(1 <= winning_numbers[i] /\ winning_numbers[i] <= 45)
         THEN ErrWinningRange
    ELSE IF ~(1 <= bonus_number /\ bonus_number <= 45) THEN ErrBonusRange
    ELSE IF Cardinality(Range(winning_numbers)) # Len(winning_numbers)
         THEN ErrWinningDuplicate
    ELSE NoError

LottoData_validate_numbers(winning_numbers, bonus_number) ==
    IF Len(winning_numbers) # 6 THEN ErrWinningCount
    ELSE IF \E i \in 1..Len(winning_numbers) :
                ~(1 <= winning_numbers[i] /\ winning_numbers[i] <= 45)
         THEN ErrWinningRange
    ELSE IF ~(1 <= bonus_number /\ bonus_number <= 45) THEN ErrBonusRange
    ELSE IF bonus_number \in Range(winning_numbers) THEN ErrBonusDuplicate
    ELSE IF Cardinality(Range(winning_numbers)) # Len(winning_numbers)
         THEN ErrWinningDuplicate
    ELSE NoError

LottoData_validate_date(draw_date) ==
    IF strptime(draw_date) THEN NoError ELSE ErrDateFormat

LottoData_validate_amounts(first_prize_winners, first_prize_amount) ==
    IF first_prize_winners < 0 THEN ErrWinners
    ELSE IF first_prize_amount < 0 THEN ErrAmount
    ELSE NoError

\* __post_init__: the three validations in turn, the first error raised.
\* The first of the errors es that is one.
FirstError(es) ==
    LET hits == {i \in DOMAIN es : es[i] # NoError}
    IN  IF hits = {} THEN NoError ELSE es[Least(hits)]

LottoData_post_init(d) ==
    FirstError(<< LottoData_validate_numbers(d.winning_numbers, d.bonus_number),
                  LottoData_validate_date(d.draw_date),
                  LottoData_validate_amounts(d.first_prize_winners,
                                             d.first_prize_amount) >>)

\* LottoData(...): the record, or the error its construction raised.
Construction(d, e) == [ok |-> e = NoError, error |-> e, data |-> d]

LottoDataOf(d) == Construction(d, LottoData_post_init(d))

LottoData(round, draw_date, winning_numbers, bonus_number, winners, amount) ==
    LottoDataOf([round_num |-> round, draw_date |-> draw_date,
                 winning_numbers |-> winning_numbers, bonus_number |-> bonus_number,
                 first_prize_winners |-> winners, first_prize_amount |-> amount])

(***************************************************************************)
(* lotto_scraper.py: the extraction strategies                             *)
(*                                                                         *)
(* A page is what the queries of the parse tree give on it:                *)
(*   win_section, win_balls     div.num.win and the texts of its balls     *)
(*   bonus_section, bonus_balls div.num.bonus and the texts of its balls   *)
(*   meta                       the description's content, <<>> without it *)
(*   texts                      the page's other text nodes, in order      *)
(*   table, rows                table.tbl_data and its rows' cell texts    *)
(*   select, options            select#dwrNoList and its options' values,  *)
(*                              each <<>> (no value) or <<text>>           *)
(***************************************************************************)
cDeung == "deung"     \* the character of "1st place" after the digit 1
cChong == "chong"     \* "total"
cMyeong == "myeong"   \* the counter of persons
cWon == "won"         \* the currency
cHoe == "hoe"         \* the counter of rounds

DateSeps == {"-", ".", "/"}

\* The integers of an optional int: <<>> is None, <<n>> is n.
NoInt == <<>>

\* The first position from i on of s whose character is not in S (Len(s)+1
\* when every one is).
RECURSIVE RunEnd(_, _, _)
RunEnd(s, i, S) == IF i <= Len(s) /\ s[i] \in S THEN RunEnd(s, i + 1, S) ELSE i

InRange(nums) == SelectSeq(nums, LAMBDA n : 1 <= n /\ n <= 45)

\* SixOrNothing keeping the first six of more than six numbers.
SixOrNothing_first_six(numbers) == IF Len(numbers) >= 6 THEN SubSeq(numbers, 1, 6) ELSE <<>>

SixOrNothing(numbers) == IF Len(numbers) = 6 THEN numbers ELSE <<>>

win_ball_numbers(page) ==
    InRange([i \in 1..Len(page.win_balls) |-> clean_number_string(page.win_balls[i])])

extract_winning_numbers(page) ==
    IF ~page.win_section THEN <<>>
    ELSE IF page.win_balls = <<>> THEN <<>>
    ELSE SixOrNothing(win_ball_numbers(page))

OneInRange(n) == IF 1 <= n /\ n <= 45 THEN <<n>> ELSE NoInt

extract_bonus_number(page) ==
    IF ~page.bonus_section THEN NoInt
    ELSE IF page.bonus_balls = <<>> THEN NoInt
    ELSE OneInRange(clean_number_string(page.bonus_balls[1]))

\* The text of a match of the date pattern.
MatchText(s, m) == SubSeq(s, m.first, m.next - 1)

\* The date text found: the description's match, else the first text node
\* holding a date, stripped, else None.
draw_date_text(page, meta_match, date_elements) ==
    IF meta_match.found THEN MatchText(page.meta[1], meta_match)
    ELSE IF date_elements # <<>> THEN strip(date_elements[1])
    ELSE None

ParsedDate(date_str) == IF date_str = None THEN None ELSE parse_date_string(date_str)

extract_draw_date(page) ==
    ParsedDate(draw_date_text(page,
        IF page.meta = <<>> THEN NoMatch ELSE DateSearch(page.meta[1], {"."}, {"."}),
        SelectSeq(page.texts, LAMBDA t : DateSearch(t, DateSeps, DateSeps).found)))

\* The pattern 1<deung> <chong> (\d+)<myeong>.*?(\d{1,3}(?:,\d{3})*)<won> of the
\* description.
PrizeHead == <<"1", cDeung, " ", cChong, " ">>

\* s[j..e-1] is \d{1,3}(?:,\d{3})* in full.
IsGroupedNumber(t) ==
    LET first == RunEnd(t, 1, Digits) - 1
    IN  /\ first \in 1..3
        /\ (Len(t) - first) % 4 = 0
        /\ \A k \in (first + 1)..Len(t) :
              IF (k - first) % 4 = 1 THEN t[k] = "," ELSE t[k] \in Digits

\* The amount group of a match that starts its lazy gap at position g: the
\* leftmost j from g on where a grouped number stands right before <won>, no
\* line break in between.
AmountGroupAt(s, g) ==
    LET e == [j \in g..Len(s) |-> RunEnd(s, j, Digits \cup {","})]
        js == {j \in g..Len(s) : /\ e[j] > j /\ At(s, e[j]) = cWon
                                  /\ IsGroupedNumber(SubSeq(s, j, e[j] - 1))
                                  /\ \A k \in g..(j - 1) : s[k] # "\n"}
    IN  IF js = {} THEN NoMatch
        ELSE [found |-> TRUE, text |-> SubSeq(s, Least(js), e[Least(js)] - 1)]

PrizeGroups(s, d, e, a) ==
    IF a.found
    THEN [found |-> TRUE, winners |-> SubSeq(s, d, e - 1), amount |-> a.text]
    ELSE NoMatch

\* The head at i, then digits from d up to e where <myeong> stands.
PrizeTail(s, i, d, e) ==
    PrizeGroups(s, d, e, IF /\ SubSeq(s, i, d - 1) = PrizeHead
                            /\ e > d /\ At(s, e) = cMyeong
                         THEN AmountGroupAt(s, e + 1) ELSE NoMatch)

PrizeMatchAt(s, i) ==
    PrizeTail(s, i, i + Len(PrizeHead), RunEnd(s, i + Len(PrizeHead), Digits))

PrizeSearch(s) ==
    FirstFound([i \in 1..Len(s) |->
                   IF i + Len(PrizeHead) - 1 <= Len(s) THEN PrizeMatchAt(s, i)
                   ELSE NoMatch])

FirstPrizeLabel == <<"1", cDeung>>

\* The winners and the amount from their texts, (0, 0) without them.
PrizeOf(found) ==
    IF found = <<>> THEN <<0, 0>>
    ELSE [k \in 1..2 |-> clean_number_string(found[k])]

\* The texts of the first row of hit, else of the description's match m.
PrizeTexts(page, hit, m) ==
    IF hit # {}
    THEN << strip(page.rows[Least(hit)][3]), strip(page.rows[Least(hit)][4]) >>
    ELSE IF m.found THEN << m.winners, m.amount >>
    ELSE <<>>

\* The rows of the table that name the first prize in at least four cells.
FirstPrizeRows(page) ==
    {r \in 1..Len(page.rows) : /\ Len(page.rows[r]) >= 4
                                /\ strip(page.rows[r][1]) = FirstPrizeLabel}

extract_prize_info(page) ==
    IF ~page.table THEN <<0, 0>>
    ELSE PrizeOf(PrizeTexts(page, FirstPrizeRows(page),
                            IF page.meta = <<>> THEN NoMatch
                            ELSE PrizeSearch(page.meta[1])))

(***************************************************************************)
(* lotto_scraper.py: the latest round, and one round's record              *)
(***************************************************************************)
DefaultLatestRound == 1200

\* int(text): blanks around, a sign, then digits only; otherwise ValueError.
py_int(text) ==
    LET u == strip(text)
        signed == u # <<>> /\ u[1] \in {"+", "-"}
        body == IF signed THEN Tail(u) ELSE u
    IN  IF body # <<>> /\ \A k \in 1..Len(body) : body[k] \in Digits
        THEN [ok |-> TRUE,
              value |-> IF signed /\ u[1] = "-" THEN 0 - IntOf(body) ELSE IntOf(body)]
        ELSE [ok |-> FALSE, value |-> 0]

\* re.search(r'(\d+)<hoe>'): the leftmost run of digits that <hoe> follows.
RoundSearch(s) ==
    LET hits == {i \in 1..Len(s) : /\ s[i] \in Digits
                                    /\ At(s, RunEnd(s, i, Digits)) = cHoe}
    IN  IF hits = {} THEN NoMatch
        ELSE [found |-> TRUE,
              text |-> SubSeq(s, Least(hits), RunEnd(s, Least(hits), Digits) - 1)]

IntOrDefault(v) == IF v.ok THEN v.value ELSE DefaultLatestRound

RoundOrDefault(m) == IF m.found THEN IntOf(m.text) ELSE DefaultLatestRound

extract_latest_round(page) ==
    IF page.select /\ page.options # <<>>
    THEN IF page.options[1] = <<>> THEN 0
         ELSE IntOrDefault(py_int(page.options[1][1]))
    ELSE RoundOrDefault(IF page.meta = <<>> THEN NoMatch
                        ELSE RoundSearch(page.meta[1]))

\* _parse_round_data: the record, nothing (an extraction gave no value), or
\* the ParsingError it raises in place of the error met (cause).
NoData == [kind |-> "none"]
Raised(exc, cause) == [kind |-> "raise", exc |-> exc, cause |-> cause]

\* The record constructed, or the ParsingError raised in place of the
\* ValueError of its construction.
RecordOrError(r) ==
    IF r.ok THEN [kind |-> "record", data |-> r.data]
    ELSE Raised("ParsingError", "ValueError")

\* round_data with prize info of (0, 0) taken as a missing extraction.
round_data_prize_required(round, winning_numbers, bonus_number, draw_date, prize) ==
    IF winning_numbers = <<>> THEN NoData
    ELSE IF bonus_number = NoInt THEN NoData
    ELSE IF draw_date = None \/ draw_date = <<>> THEN NoData
    ELSE IF prize = <<0, 0>> THEN NoData
    ELSE IF ~validate_winning_numbers(winning_numbers)
         THEN Raised("ParsingError", "DataValidationError")
    ELSE IF ~validate_bonus_number(bonus_number[1], winning_numbers)
         THEN Raised("ParsingError", "DataValidationError")
    ELSE RecordOrError(LottoData(round, draw_date, winning_numbers, bonus_number[1],
                                 prize[1], prize[2]))

\* _parse_round_data on round_data_prize_required.
parse_round_data_prize_required(page, round) ==
    round_data_prize_required(round, extract_winning_numbers(page),
                              extract_bonus_number(page), extract_draw_date(page),
                              extract_prize_info(page))

\* The body of _parse_round_data once the four extractions are made.
round_data(round, winning_numbers, bonus_number, draw_date, prize) ==
    IF winning_numbers = <<>> THEN NoData
    ELSE IF bonus_number = NoInt THEN NoData
    ELSE IF draw_date = None \/ draw_date = <<>> THEN NoData
    ELSE IF ~validate_winning_numbers(winning_numbers)
         THEN Raised("ParsingError", "DataValidationError")
    ELSE IF ~validate_bonus_number(bonus_number[1], winning_numbers)
         THEN Raised("ParsingError", "DataValidationError")
    ELSE RecordOrError(LottoData(round, draw_date, winning_numbers, bonus_number[1],
                                 prize[1], prize[2]))

parse_round_data(page, round) ==
    round_data(round, extract_winning_numbers(page), extract_bonus_number(page),
               extract_draw_date(page), extract_prize_info(page))

(***************************************************************************)
(* The pages the site is sampled to serve                                  *)
(***************************************************************************)
GoodBalls == <<<<"1", "0">>, <<"2", "3">>, <<"2", "9">>, <<"3", "3">>, <<"3", "7">>, <<"4", "0">>>>
GoodMeta == <<"1", cHoe, " ", "2", "0", "0", "2", ".", "1", "2", ".", "7", " ", "1", cDeung, " ", cChong, " ", "4", cMyeong, ",", " ", "2", ",", "0", "6", "7", cWon>>
GoodRows == << <<<<"2", cDeung>>, <<"9", ",", "0", "0", "0", cWon>>, <<"5">>, <<"1", ",", "8", "0", "0", cWon>>>>, <<<<" ", "1", cDeung, " ">>, <<"8", ",", "0", "0", "0", cWon>>, <<" ", "4">>, <<"2", ",", "0", "0", "0", cWon>>>> >>

EmptyPage ==
    [win_section |-> FALSE, win_balls |-> <<>>, bonus_section |-> FALSE,
     bonus_balls |-> <<>>, meta |-> <<>>, texts |-> <<>>, table |-> FALSE,
     rows |-> <<>>, select |-> FALSE, options |-> <<>>]

GoodPage ==
    [EmptyPage EXCEPT !.win_section = TRUE, !.win_balls = GoodBalls,
                      !.bonus_section = TRUE, !.bonus_balls = << <<"1", "6">> >>,
                      !.meta = << GoodMeta >>, !.table = TRUE, !.rows = GoodRows]

Pages ==
    << GoodPage,
       \* the date in a text node only, no table, no description
       [GoodPage EXCEPT !.meta = <<>>, !.texts = << <<"l", "o", "t", "t", "o">>, <<" ", "(", "2", "0", "2", "4", "/", "1", "/", "5", ")", " ">> >>,
                        !.table = FALSE, !.rows = <<>>],
       \* no first-prize row; the prize in the description
       [GoodPage EXCEPT !.rows = << <<<<"2", cDeung>>, <<"9", ",", "0", "0", "0", cWon>>, <<"5">>, <<"1", ",", "8", "0", "0", cWon>>>> >>],
       \* no first-prize row; the description holds the date only
       [GoodPage EXCEPT !.rows = << <<<<"2", cDeung>>, <<"9", ",", "0", "0", "0", cWon>>, <<"5">>, <<"1", ",", "8", "0", "0", cWon>>>> >>, !.meta = << <<"1", cHoe, " ", "2", "0", "0", "2", ".", "1", "2", ".", "7">> >>],
       \* seven balls, one of them out of range
       [GoodPage EXCEPT !.win_balls = <<<<"1", "0">>, <<"2", "3">>, <<"4", "6">>, <<"2", "9">>, <<"3", "3">>, <<"3", "7">>, <<"4", "0">>>>],
       \* no winning-number section
       [GoodPage EXCEPT !.win_section = FALSE, !.win_balls = <<>>],
       \* five balls
       [GoodPage EXCEPT !.win_balls = <<<<"1", "0">>, <<"2", "3">>, <<"2", "9">>, <<"3", "3">>, <<"3", "7">>>>],
       \* six balls, one without a digit
       [GoodPage EXCEPT !.win_balls = <<<<"1", "0">>, <<"2", "3">>, <<"x">>, <<"3", "3">>, <<"3", "7">>, <<"4", "0">>>>],
       \* six balls, two alike
       [GoodPage EXCEPT !.win_balls = <<<<"1", "0">>, <<"2", "3">>, <<"2", "9">>, <<"3", "3">>, <<"3", "7">>, <<"1", "0">>>>],
       \* the bonus among the winning numbers
       [GoodPage EXCEPT !.bonus_balls = << <<"1", "0">> >>],
       \* no bonus section
       [GoodPage EXCEPT !.bonus_section = FALSE, !.bonus_balls = <<>>],
       \* a bonus ball out of range
       [GoodPage EXCEPT !.bonus_balls = << <<"4", "6">> >>],
       \* no date anywhere
       [GoodPage EXCEPT !.meta = <<>>],
       \* a date that is none
       [GoodPage EXCEPT !.meta = << <<"1", cHoe, " ", "2", "0", "2", "4", ".", "1", "3", ".", "4", "5", " ", "1", cDeung, " ", cChong, " ", "4", cMyeong, ",", " ", "2", ",", "0", "6", "7", cWon>> >>],
       \* a date with two different separators, in a text node
       [GoodPage EXCEPT !.meta = <<>>, !.texts = << <<"2", "0", "2", "4", "-", "1", "/", "5">> >>],
       \* the latest-round page: a selection control
       [EmptyPage EXCEPT !.select = TRUE, !.options = << <<<<"3">>>>, <<<<"2">>>> >>,
                         !.meta = << <<"l", "o", "t", "t", "o", " ", "2", cHoe>> >>],
       \* its first option without a value
       [EmptyPage EXCEPT !.select = TRUE, !.options = << <<>>, <<<<"2">>>> >>,
                         !.meta = << <<"l", "o", "t", "t", "o", " ", "2", cHoe>> >>],
       \* its first option's value not a number
       [EmptyPage EXCEPT !.select = TRUE, !.options = << <<<<"a", "b", "c">>>>, <<<<"2">>>> >>,
                         !.meta = << <<"l", "o", "t", "t", "o", " ", "2", cHoe>> >>],
       \* a selection control without options, the round in the description
       [EmptyPage EXCEPT !.select = TRUE, !.meta = << <<"l", "o", "t", "t", "o", " ", "2", cHoe>> >>],
       \* no selection control, the round in the description
       [EmptyPage EXCEPT !.meta = << <<"l", "o", "t", "t", "o", " ", "2", cHoe>> >>],
       \* neither
       EmptyPage >>

\* The pages served in a run for a round's address (a good one, one without
\* prize data, one without winning numbers, one with numbers that fail
\* validation, one without bonus, one without date, one with a date that is
\* none), and for the latest-round address.
RoundPages == {1, 2, 6, 9, 11, 13, 14}
LatestPages == 16..21

(***************************************************************************)
(* The three specifications share the variables; each leaves idle the ones *)
(* it does not use.                                                        *)
(***************************************************************************)
Idle == [kind |-> "idle"]

RunIdle ==
    /\ pc = "idle" /\ args = Idle /\ end = 0 /\ round_num = 0 /\ req = Idle
    /\ response = 0 /\ lotto_data = Idle /\ results = <<>>
    /\ failed_rounds = <<>> /\ log = <<>> /\ served = <<>> /\ outcome = Idle

RetryIdle == rin = Idle /\ rst = Idle

(***************************************************************************)
(* main.py and LottoScraper: one run                                       *)
(***************************************************************************)
MaxRound == 3           \* rounds above it are not explored
REQUEST_DELAY == 1      \* SCRAPING_CONFIG['REQUEST_DELAY']
RequestMaxRetries == 3  \* @retry_on_exception(max_retries=3, ...)
RequestRetryDelay == 1  \* @retry_on_exception(..., delay=1.0)

Pause(secs) == [ev |-> "pause", secs |-> secs]

\* The command line: --start, --end (<<>> when not given), --delay,
\* --max-retries.
SampleArgs ==
    [start : {1, 2}, end : {<<>>} \cup { <<n>> : n \in 0..MaxRound },
     delay : {1}, max_retries : {3}]
    \cup [start : {1}, end : { <<1>> }, delay : {1, 2}, max_retries : {2, 3}]

Running == [exit_code |-> 0 - 1, cause |-> "", assigned |-> FALSE,
            lotto_data |-> <<>>, csv |-> FALSE]

Exit(code, cause) == [Running EXCEPT !.exit_code = code, !.cause = cause]

Init ==
    /\ pc = "main"
    /\ args \in SampleArgs
    /\ end = 0 /\ round_num = 0
    /\ req = WrapperStart
    /\ response = 0
    /\ lotto_data = NoData
    /\ results = <<>> /\ failed_rounds = <<>>
    /\ log = <<>> /\ served = <<>>
    /\ outcome = Running
    /\ vin = Idle /\ vout = Idle
    /\ RetryIdle

Tested == <<vin, vout, rin, rst>>

\* main calls scrape_all_rounds(args.start, args.end) with an end.
ScrapeAllRounds ==
    /\ pc = "main"
    /\ args.end # <<>>
    /\ end' = args.end[1]
    /\ round_num' = args.start
    /\ pc' = "loop"
    /\ UNCHANGED <<args, req, response, lotto_data, results, failed_rounds, log,
                   served, outcome, Tested>>

\* main calls it without: get_latest_round begins its request.
GetLatestRound ==
    /\ pc = "main"
    /\ args.end = <<>>
    /\ pc' = "latest_request"
    /\ req' = WrapperStart
    /\ UNCHANGED <<args, end, round_num, response, lotto_data, results,
                   failed_rounds, log, served, outcome, Tested>>

PagesFor(p) == IF p = "latest_request" THEN LatestPages ELSE RoundPages

\* One call of _make_request's body that returns a response.
RequestReturns ==
    /\ pc \in {"latest_request", "round_request"}
    /\ \E k \in PagesFor(pc) :
          /\ response' = k
          /\ served' = IF pc = "round_request" THEN Append(served, k) ELSE served
    /\ req' = wrapper(RequestMaxRetries, RequestRetryDelay, req, [ok |-> TRUE])
    /\ log' = req'.events
    /\ pc' = IF pc = "latest_request" THEN "latest_extract" ELSE "round_parse"
    /\ UNCHANGED <<args, end, round_num, lotto_data, results, failed_rounds,
                   outcome, Tested>>

NetworkError(n) == [kind |-> "NetworkError", id |-> n]

\* One call of it that raises NetworkError, with more calls to come: the
\* wrapper sleeps and goes on.
RequestRetried ==
    /\ pc \in {"latest_request", "round_request"}
    /\ LET w == wrapper(RequestMaxRetries, RequestRetryDelay, req,
                        [ok |-> FALSE, exc |-> NetworkError(req.attempt + 1)])
       IN  /\ w.status = "running"
           /\ req' = w
           /\ log' = w.events
    /\ UNCHANGED <<pc, args, end, round_num, response, lotto_data, results,
                   failed_rounds, served, outcome, Tested>>

\* RoundRequestFailed with the exception leaving scrape_round and the run.
RoundRequestFailed_raises ==
    /\ pc = "round_request"
    /\ LET w == wrapper(RequestMaxRetries, RequestRetryDelay, req,
                        [ok |-> FALSE, exc |-> NetworkError(req.attempt + 1)])
       IN  /\ w.status = "raised"
           /\ req' = w
           /\ log' = w.events
    /\ served' = Append(served, 0)
    /\ outcome' = Exit(1, "NetworkError")
    /\ pc' = "exit"
    /\ UNCHANGED <<args, end, round_num, response, lotto_data, results,
                   failed_rounds, Tested>>

\* The last call of a round's request raises: the wrapper raises it,
\* scrape_round logs it and returns None.
RoundRequestFailed ==
    /\ pc = "round_request"
    /\ LET w == wrapper(RequestMaxRetries, RequestRetryDelay, req,
                        [ok |-> FALSE, exc |-> NetworkError(req.attempt + 1)])
       IN  /\ w.status = "raised"
           /\ req' = w
           /\ log' = w.events
    /\ served' = Append(served, 0)
    /\ lotto_data' = NoData
    /\ pc' = "round_done"
    /\ UNCHANGED <<args, end, round_num, response, results, failed_rounds,
                   outcome, Tested>>

\* LatestRequestFailed with the default round taken in place of the error.
LatestRequestFailed_fallback ==
    /\ pc = "latest_request"
    /\ LET w == wrapper(RequestMaxRetries, RequestRetryDelay, req,
                        [ok |-> FALSE, exc |-> NetworkError(req.attempt + 1)])
       IN  /\ w.status = "raised"
           /\ req' = w
           /\ log' = w.events
    /\ end' = DefaultLatestRound
    /\ round_num' = args.start
    /\ pc' = "loop"
    /\ UNCHANGED <<args, response, lotto_data, results, failed_rounds, served,
                   outcome, Tested>>

\* The last call of the latest-round request raises: get_latest_round raises
\* NetworkError, which leaves scrape_all_rounds; main prints it and exits.
LatestRequestFailed ==
    /\ pc = "latest_request"
    /\ LET w == wrapper(RequestMaxRetries, RequestRetryDelay, req,
                        [ok |-> FALSE, exc |-> NetworkError(req.attempt + 1)])
       IN  /\ w.status = "raised"
           /\ req' = w
           /\ log' = w.events
    /\ outcome' = Exit(1, "NetworkError")
    /\ pc' = "exit"
    /\ UNCHANGED <<args, end, round_num, response, lotto_data, results,
                   failed_rounds, served, Tested>>

\* get_latest_round returns the round extracted; the loop is set up.
LatestRoundFound ==
    /\ pc = "latest_extract"
    /\ end' = extract_latest_round(Pages[response])
    /\ round_num' = args.start
    /\ pc' = "loop"
    /\ UNCHANGED <<args, req, response, lotto_data, results, failed_rounds, log,
                   served, outcome, Tested>>

\* The for loop takes its next round: scrape_round begins its request.
NextRound ==
    /\ pc = "loop"
    /\ round_num <= end
    /\ round_num <= MaxRound
    /\ pc' = "round_request"
    /\ req' = WrapperStart
    /\ log' = <<>>
    /\ UNCHANGED <<args, end, round_num, response, lotto_data, results,
                   failed_rounds, served, outcome, Tested>>

\* scrape_round parses the page into a record or None, and goes on to its
\* sleep.
RoundParsed ==
    /\ pc = "round_parse"
    /\ \E r \in {parse_round_data(Pages[response], round_num)} :
          /\ r.kind # "raise"
          /\ lotto_data' = r
    /\ pc' = "round_pause"
    /\ UNCHANGED <<args, end, round_num, req, response, results, failed_rounds,
                   log, served, outcome, Tested>>

\* _parse_round_data raises: scrape_round logs it and returns None.
RoundParseRaised ==
    /\ pc = "round_parse"
    /\ parse_round_data(Pages[response], round_num).kind = "raise"
    /\ lotto_data' = NoData
    /\ pc' = "round_done"
    /\ UNCHANGED <<args, end, round_num, req, response, results, failed_rounds,
                   log, served, outcome, Tested>>

\* time.sleep(self.config['REQUEST_DELAY']), then scrape_round returns.
RequestDelay ==
    /\ pc = "round_pause"
    /\ log' = Append(log, Pause(REQUEST_DELAY))
    /\ pc' = "round_done"
    /\ UNCHANGED <<args, end, round_num, req, response, lotto_data, results,
                   failed_rounds, served, outcome, Tested>>

\* RoundSucceeded with the record put at the head of the list.
RoundSucceeded_prepends ==
    /\ pc = "round_done"
    /\ lotto_data.kind = "record"
    /\ results' = <<lotto_data.data>> \o results
    /\ round_num' = round_num + 1
    /\ pc' = "loop"
    /\ UNCHANGED <<args, end, req, response, lotto_data, failed_rounds, log,
                   served, outcome, Tested>>

\* The loop's body after scrape_round returned a record.
RoundSucceeded ==
    /\ pc = "round_done"
    /\ lotto_data.kind = "record"
    /\ results' = Append(results, lotto_data.data)
    /\ round_num' = round_num + 1
    /\ pc' = "loop"
    /\ UNCHANGED <<args, end, req, response, lotto_data, failed_rounds, log,
                   served, outcome, Tested>>

\* RoundFailed without the round added to failed_rounds.
RoundFailed_not_recorded ==
    /\ pc = "round_done"
    /\ lotto_data.kind # "record"
    /\ round_num' = round_num + 1
    /\ pc' = "loop"
    /\ UNCHANGED <<args, end, req, response, lotto_data, results, failed_rounds, log,
                   served, outcome, Tested>>

\* The loop's body after it returned None.
RoundFailed ==
    /\ pc = "round_done"
    /\ lotto_data.kind # "record"
    /\ failed_rounds' = Append(failed_rounds, round_num)
    /\ round_num' = round_num + 1
    /\ pc' = "loop"
    /\ UNCHANGED <<args, end, req, response, lotto_data, results, log, served,
                   outcome, Tested>>

\* DataProcessor.validate_data on the frame of the records.
validate_data(data) ==
    /\ data # <<>>
    /\ \A i, j \in 1..Len(data) : i # j => data[i].round_num # data[j].round_num
    /\ \A i \in 1..Len(data) :
          /\ \A k \in 1..6 : data[i].winning_numbers[k] \in 1..45
          /\ data[i].bonus_number \in 1..45

\* MainFinishes returning from main without records instead of exiting 1.
MainFinishes_returns_without_data ==
    /\ pc = "loop"
    /\ round_num > end
    /\ outcome' = [exit_code |-> IF results = <<>> \/ validate_data(results) THEN 0 ELSE 1,
                   cause |-> IF results = <<>> THEN "no data"
                             ELSE IF ~validate_data(results) THEN "validation"
                             ELSE "",
                   assigned |-> TRUE,
                   lotto_data |-> results,
                   csv |-> results # <<>> /\ validate_data(results)]
    /\ pc' = "exit"
    /\ UNCHANGED <<args, end, round_num, req, response, lotto_data, results,
                   failed_rounds, log, served, Tested>>

\* scrape_all_rounds returns results; main exits 1 without records or with
\* records that fail validate_data, else it saves the csv.
MainFinishes ==
    /\ pc = "loop"
    /\ round_num > end
    /\ outcome' = [exit_code |-> IF results # <<>> /\ validate_data(results) THEN 0 ELSE 1,
                   cause |-> IF results = <<>> THEN "no data"
                             ELSE IF ~validate_data(results) THEN "validation"
                             ELSE "",
                   assigned |-> TRUE,
                   lotto_data |-> results,
                   csv |-> results # <<>> /\ validate_data(results)]
    /\ pc' = "exit"
    /\ UNCHANGED <<args, end, round_num, req, response, lotto_data, results,
                   failed_rounds, log, served, Tested>>

\* Interrupt with the records accumulated handed to main.
Interrupt_returns_results ==
    /\ pc \in {"latest_request", "latest_extract", "loop", "round_request",
               "round_parse", "round_pause", "round_done"}
    /\ outcome' = [Exit(1, "KeyboardInterrupt") EXCEPT !.assigned = TRUE,
                                                        !.lotto_data = results]
    /\ pc' = "exit"
    /\ UNCHANGED <<args, end, round_num, req, response, lotto_data, results,
                   failed_rounds, log, served, Tested>>

\* KeyboardInterrupt while scrape_all_rounds runs: no handler of the scraper
\* catches it (each is "except Exception"), the call does not return, main
\* prints the interruption and exits 1.
Interrupt ==
    /\ pc \in {"latest_request", "latest_extract", "loop", "round_request",
               "round_parse", "round_pause", "round_done"}
    /\ outcome' = Exit(1, "KeyboardInterrupt")
    /\ pc' = "exit"
    /\ UNCHANGED <<args, end, round_num, req, response, lotto_data, results,
                   failed_rounds, log, served, Tested>>

Next ==
    \/ ScrapeAllRounds
    \/ GetLatestRound
    \/ RequestReturns
    \/ RequestRetried
    \/ RoundRequestFailed
    \/ LatestRequestFailed
    \/ LatestRoundFound
    \/ NextRound
    \/ RoundParsed
    \/ RoundParseRaised
    \/ RequestDelay
    \/ RoundSucceeded
    \/ RoundFailed
    \/ MainFinishes
    \/ Interrupt

Spec == Init /\ [][Next]_vars

(***************************************************************************)
(* Constructing a LottoData from sampled arguments                         *)
(***************************************************************************)
T(y, s1, m, s2, d) == y \o <<s1>> \o m \o <<s2>> \o d

SampleYears == { <<"2", "0", "2", "4">>, <<"2", "0", "2", "3">> }
SampleSeps == { <<"-", "-">>, <<"/", "/">>, <<".", ".">>, <<"-", "/">> }
SampleMonths == { <<"1">>, <<"0", "2">>, <<"1", "3">> }
SampleDays == { <<"1">>, <<"0", "7">>, <<"2", "9">>, <<"3", "0">> }

SampleDates ==
    { T(y, s[1], m, s[2], d) :
        y \in SampleYears, s \in SampleSeps, m \in SampleMonths, d \in SampleDays }
    \cup { <<>>,
           <<"i", "n", "v", "a", "l", "i", "d">>,
           <<"2", "0", "0", "2", "-", "1", "2", "-", "0", "7">>,
           <<"2", "0", "0", "2", "/", "1", "2", "/", "0", "7">>,
           <<"2", "0", "2", "4", "-", "1", "3", "-", "4", "5">>,
           <<"0", "0", "0", "0", "-", "0", "1", "-", "0", "1">>,
           <<"2", "0", "2", "4", "-", "1", "-", " ", "1">>,
           <<"2", "0", "2", "4", "-", "0", "1", "-", "0", "1", "x">>,
           <<"1", "2", "0", "2", "4", "-", "0", "1", "-", "0", "1">>,
           <<"2", "0", "2", "4", "-", "1", "0", "-", "4", "0">> }

SampleWinning ==
    { <<10, 23, 29, 33>> \o <<a, b>> : a \in {0, 10, 37, 46}, b \in {37, 40, 46} }
    \cup { <<10, 23, 29>>, <<10, 23, 29, 33, 37>>, <<10, 10, 29, 33, 37>>,
           <<0, 23, 29, 33, 37>>, <<10, 23, 29, 33, 37, 40, 41>>, <<>> }

SampleBonus == {0, 10, 16, 37, 46}
SampleWinners == {0 - 1, 4}
SampleAmount == {0 - 1, 0}

LottoDataInputs ==
    [draw_date : SampleDates, winning_numbers : SampleWinning,
     bonus_number : SampleBonus, first_prize_winners : SampleWinners,
     first_prize_amount : SampleAmount]

InitLottoData ==
    /\ vin \in LottoDataInputs
    /\ vout = Idle
    /\ RunIdle
    /\ RetryIdle

Construct ==
    /\ vin # Idle
    /\ vout = Idle
    /\ vout' = [kind |-> "constructed",
                r |-> LottoData(1, vin.draw_date, vin.winning_numbers, vin.bonus_number,
                                vin.first_prize_winners, vin.first_prize_amount)]
    /\ UNCHANGED <<pc, args, end, round_num, req, response, lotto_data, results,
                   failed_rounds, log, served, outcome, vin, rin, rst>>

NextLottoData == Construct

SpecLottoData == InitLottoData /\ [][NextLottoData]_vars

(***************************************************************************)
(* A wrapped operation under sampled configurations                        *)
(***************************************************************************)
MaxRetriesBound == 4
SampleDelays == {1, 2, 3}
ExceptionKinds == {"NetworkError", "ValueError"}

InitRetry ==
    /\ rin \in [max_retries : 0..MaxRetriesBound, delay : SampleDelays]
    /\ rst = WrapperStart
    /\ RunIdle
    /\ vin = Idle /\ vout = Idle

\* func returns.
FuncReturns ==
    /\ rin # Idle
    /\ rst.status = "running"
    /\ rst.attempt < rin.max_retries
    /\ rst' = wrapper(rin.max_retries, rin.delay, rst, [ok |-> TRUE])
    /\ UNCHANGED <<pc, args, end, round_num, req, response, lotto_data, results,
                   failed_rounds, log, served, outcome, vin, vout, rin>>

\* func raises: the exception is a new object each time, told by the call
\* that raised it.
FuncRaises ==
    /\ rin # Idle
    /\ rst.status = "running"
    /\ rst.attempt < rin.max_retries
    /\ \E k \in ExceptionKinds :
          rst' = wrapper(rin.max_retries, rin.delay, rst,
                         [ok |-> FALSE, exc |-> [kind |-> k, id |-> rst.attempt + 1]])
    /\ UNCHANGED <<pc, args, end, round_num, req, response, lotto_data, results,
                   failed_rounds, log, served, outcome, vin, vout, rin>>

\* The loop has no turn to make (max_retries is 0): the wrapper returns None.
LoopEnds ==
    /\ rin # Idle
    /\ rst.status = "running"
    /\ rst.attempt >= rin.max_retries
    /\ rst' = wrapper(rin.max_retries, rin.delay, rst, [ok |-> TRUE])
    /\ UNCHANGED <<pc, args, end, round_num, req, response, lotto_data, results,
                   failed_rounds, log, served, outcome, vin, vout, rin>>

NextRetry == FuncReturns \/ FuncRaises \/ LoopEnds

SpecRetry == InitRetry /\ [][NextRetry]_vars

(***************************************************************************)
(* The functions of utils.py and the extractions, each applied to sampled  *)
(* arguments                                                               *)
(***************************************************************************)
\* Lists of numbers: valid ones, and each with one number replaced, with
\* numbers dropped from its end, or with one number more.
SampleNumbers ==
    LET ValidWinning == { <<1, 2, 3, 4, 5, 6>>, <<45, 44, 43, 42, 41, 40>>,
                          <<10, 23, 29, 33, 37, 40>> }
        OddNumbers == {0 - 1, 0, 1, 40, 45, 46}
    IN  UNION { { [w EXCEPT ![i] = v] : i \in 1..Len(w), v \in OddNumbers }
                \cup { SubSeq(w, 1, n) : n \in 0..Len(w) }
                \cup { Append(w, v) : v \in OddNumbers \cup {7} } : w \in ValidWinning }
        \cup SampleWinning

SampleBonuses == {0 - 1, 0, 1, 6, 7, 16, 40, 45, 46}

\* int(cleaned) of clean_number_string: the interpreter refuses a text of more
\* than 4300 digits ("Exceeds the limit (4300 digits) for integer string
\* conversion", a ValueError), its default limit.
MaxStrDigits == 4300

\* Texts for clean_number_string, each with the digits it was built around:
\* the digits alone, between letters, with a comma after each, and between a
\* blank and the won character; None, the empty text and a text of 4301 digits.
SampleTexts ==
    LET SampleDigits == { <<>>, <<"0">>, <<"7">>, <<"0", "0">>, <<"0", "0", "7">>,
                          <<"4", "5">>, <<"1", "2", "3">>, <<"1", "2", "3", "4">>,
                          <<"1", "0", "0", "0">>, <<"1", "2", "3", "4", "5", "6", "7">>,
                          <<"9", "9", "9", "9", "9", "9", "9", "9", "9">> }
    IN  UNION { { [text |-> d, digits |-> d],
                  [text |-> <<"a", "b", "c">> \o d \o <<"d", "e", "f">>, digits |-> d],
                  [text |-> SubSeq([i \in 1..(2 * Len(d)) |->
                                      IF i % 2 = 1 THEN d[(i + 1) \div 2] ELSE ","],
                                   1, 2 * Len(d)),
                   digits |-> d],
                  [text |-> <<" ">> \o d \o <<cWon>>, digits |-> d] } : d \in SampleDigits }
        \cup { [text |-> <<"1", ",", "2", "3", "4", ",", "5", "6", "7">>,
                digits |-> <<"1", "2", "3", "4", "5", "6", "7">>],
               [text |-> <<"-", "5">>, digits |-> <<"5">>],
               [text |-> <<"1", ".", "5">>, digits |-> <<"1", "5">>],
               [text |-> SubSeq([i \in 1..(MaxStrDigits + 1) |-> "1"], 1, MaxStrDigits + 1),
                digits |-> SubSeq([i \in 1..(MaxStrDigits + 1) |-> "1"], 1, MaxStrDigits + 1)] }

\* Dates for parse_date_string as year, separator, month and day: years of
\* four digits, months and days of one or two, a possible date or not.
SampleDateParts ==
    [y : { <<"2", "0", "2", "4">>, <<"0", "0", "0", "1">>, <<"1", "9", "9", "9">> },
     s : {".", "-", "/"},
     m : { <<"1">>, <<"9">>, <<"0", "1">>, <<"1", "2">>, <<"0", "0">>, <<"9", "9">> },
     d : { <<"1">>, <<"0">>, <<"0", "1">>, <<"1", "9">>, <<"3", "1">>, <<"4", "5">> }]

\* Other texts for parse_date_string: the dates of SampleDates, dates inside
\* a longer text, and texts no pattern matches.
SampleDateTexts ==
    SampleDates
    \cup { <<"a", "b", "c">> \o T(p.y, p.s, p.m, p.s, p.d) \o <<"d", "e", "f">> :
             p \in {q \in SampleDateParts : q.m = <<"1">> /\ q.d \in {<<"1">>, <<"1", "9">>}} }
    \cup { <<"2", "0", "2", "4", ".", "1", "2", "/", "1", "9">>,
           <<"2", "0", "2", "4", "-", "1", "2">>,
           <<"2", "0", "2", "4", "-", "1", "2", "-">>,
           <<"2", "0", "2", "4", "-", "-", "1", "9">>,
           <<"2", "0", "2", "4", "-", "1", "2", "3", "-", "1", "9">>,
           <<"2", "0", "2", "-", "1", "2", "-", "1", "9">>,
           <<"2", "4", ".", "1", "2", ".", "1", "9">>,
           <<"2", "0", "2", "4", " ", "1", "2", " ", "1", "9">>,
           <<"2", "0", "2", "4", "1", "2", "1", "9">>,
           <<"2", "0", "2", "4", ".", "1", "2", ".", "1", "9", ".">>,
           <<"2", "0", "2", "4", "/", "1", "/", "2", "/", "3">>,
           <<"-">> }

\* Containers of ball elements for _extract_winning_numbers, each ball with
\* its text, the number the digits of the text form (0 without a digit) and
\* whether the text is bad (non-numeric, malformed or out of range): the six
\* good balls, with one ball replaced, with balls missing, with one or two
\* balls more.
SampleBalls ==
    LET Ball(t, v, b) == [text |-> t, value |-> v, bad |-> b]
        Good == << Ball(<<"1", "0">>, 10, FALSE), Ball(<<"2", "3">>, 23, FALSE),
                   Ball(<<"2", "9">>, 29, FALSE), Ball(<<"3", "3">>, 33, FALSE),
                   Ball(<<"3", "7">>, 37, FALSE), Ball(<<"4", "0">>, 40, FALSE) >>
        More == { Ball(<<"4", "1">>, 41, FALSE), Ball(<<" ", "7", " ">>, 7, FALSE) }
        Bad == { Ball(<<"x">>, 0, TRUE), Ball(<<>>, 0, TRUE), Ball(<<"0">>, 0, TRUE),
                 Ball(<<"4", "6">>, 46, TRUE), Ball(<<"1", "0", "0">>, 100, TRUE),
                 Ball(<<"1", "x", "2">>, 12, TRUE), Ball(<<"4", ".", "0">>, 40, TRUE),
                 Ball(<<"1", "2", "x", "3">>, 123, TRUE) }
        OneBad == { [Good EXCEPT ![i] = b] : i \in 1..6, b \in Bad }
    IN  {Good} \cup OneBad
        \cup { SubSeq(Good, 1, n) : n \in 0..5 }
        \cup { Append(c, b) : c \in {Good} \cup OneBad, b \in More \cup Bad }
        \cup { <<b>> \o c \o <<m>> : c \in OneBad, b \in Bad, m \in More }

\* Pages for _extract_latest_round, each with the round its first option
\* holds and the round its description holds (0 for none): no control, a
\* control without options, and a first option with a number, without value,
\* with a value that is no number or no round; with and without a round in
\* the description.
SampleLatestPages ==
    LET Second == << <<"2">> >>
        Selects == { [select |-> FALSE, options |-> <<>>, option |-> 0],
                     [select |-> TRUE, options |-> <<>>, option |-> 0],
                     [select |-> TRUE, options |-> << << <<"3">> >>, Second >>, option |-> 3],
                     [select |-> TRUE, options |-> << << <<" ", "7", " ">> >>, Second >>,
                      option |-> 7],
                     [select |-> TRUE, options |-> << <<>>, Second >>, option |-> 0],
                     [select |-> TRUE, options |-> << << <<>> >>, Second >>, option |-> 0],
                     [select |-> TRUE, options |-> << << <<"a", "b", "c">> >>, Second >>,
                      option |-> 0],
                     [select |-> TRUE, options |-> << << <<"0">> >>, Second >>, option |-> 0],
                     [select |-> TRUE, options |-> << << <<"-", "5">> >>, Second >>,
                      option |-> 0] }
        Metas == { [meta |-> <<>>, round |-> 0],
                   [meta |-> << <<"l", "o", "t", "t", "o">> >>, round |-> 0],
                   [meta |-> << <<"l", "o", "t", "t", "o", " ", "2", cHoe>> >>, round |-> 2] }
    IN  { [page |-> [EmptyPage EXCEPT !.select = c.select, !.options = c.options,
                                      !.meta = m.meta],
           option |-> c.option, meta |-> m.round] : c \in Selects, m \in Metas }

UtilInputs ==
    [fn : {"validate_winning_numbers"}, numbers : SampleNumbers]
    \cup [fn : {"validate_bonus_number"}, bonus : SampleBonuses,
          winning_numbers : SampleNumbers]
    \cup [fn : {"validate_numbers"}, bonus : SampleBonuses, winning_numbers : SampleNumbers]
    \cup { [fn |-> "clean_number_string", text |-> t.text, digits |-> t.digits] :
             t \in SampleTexts }
    \cup { [fn |-> "clean_number_string", text |-> None, digits |-> <<>>] }
    \cup { [fn |-> "parse_date_string", form |-> "y s m s d",
            date_str |-> T(p.y, p.s, p.m, p.s, p.d), parts |-> p] : p \in SampleDateParts }
    \cup [fn : {"parse_date_string"}, form : {"text"}, date_str : SampleDateTexts]
    \cup { [fn |-> "extract_winning_numbers", balls |-> c,
            page |-> [GoodPage EXCEPT !.win_balls = [i \in 1..Len(c) |-> c[i].text]]] :
             c \in SampleBalls }
    \cup { [fn |-> "extract_latest_round", page |-> p.page, option |-> p.option,
            meta |-> p.meta] : p \in SampleLatestPages }
    \cup { [fn |-> "extract_winning_numbers", balls |-> <<>>,
            page |-> [GoodPage EXCEPT !.win_section = FALSE, !.win_balls = <<>>]] }

InitUtils ==
    /\ vin \in UtilInputs
    /\ vout = Idle
    /\ RunIdle
    /\ RetryIdle

Untested == <<pc, args, end, round_num, req, response, lotto_data, results,
              failed_rounds, log, served, outcome, vin, rin, rst>>

ValidateWinningNumbers ==
    /\ vin.fn = "validate_winning_numbers" /\ vout = Idle
    /\ vout' = [kind |-> "returned", value |-> validate_winning_numbers(vin.numbers)]
    /\ UNCHANGED Untested

ValidateBonusNumber ==
    /\ vin.fn = "validate_bonus_number" /\ vout = Idle
    /\ vout' = [kind |-> "returned",
                value |-> validate_bonus_number(vin.bonus, vin.winning_numbers)]
    /\ UNCHANGED Untested

\* clean_number_string(text); int() raises ValueError on more than
\* MaxStrDigits digits.
CleanNumberString ==
    /\ vin.fn = "clean_number_string" /\ vout = Idle
    /\ vout' = IF vin.text # None /\ Len(SelectSeq(vin.text, IsDigit)) > MaxStrDigits
               THEN [kind |-> "raised", exc |-> "ValueError"]
               ELSE [kind |-> "returned", value |-> clean_number_string(vin.text)]
    /\ UNCHANGED Untested

ParseDateString ==
    /\ vin.fn = "parse_date_string" /\ vout = Idle
    /\ vout' = [kind |-> "returned", value |-> parse_date_string(vin.date_str)]
    /\ UNCHANGED Untested

ExtractWinningNumbers ==
    /\ vin.fn = "extract_winning_numbers" /\ vout = Idle
    /\ vout' = [kind |-> "returned", value |-> extract_winning_numbers(vin.page)]
    /\ UNCHANGED Untested

ExtractLatestRound ==
    /\ vin.fn = "extract_latest_round" /\ vout = Idle
    /\ vout' = [kind |-> "returned", value |-> extract_latest_round(vin.page)]
    /\ UNCHANGED Untested

\* The two checks _parse_round_data makes before it constructs the record,
\* and the check of the numbers the constructor makes, on the same numbers.
ValidateNumbers ==
    /\ vin.fn = "validate_numbers" /\ vout = Idle
    /\ vout' = [kind |-> "returned",
                winning_ok |-> validate_winning_numbers(vin.winning_numbers),
                bonus_ok |-> validate_bonus_number(vin.bonus, vin.winning_numbers),
                error |-> LottoData_validate_numbers(vin.winning_numbers, vin.bonus)]
    /\ UNCHANGED Untested

NextUtils ==
    \/ ValidateWinningNumbers
    \/ ValidateBonusNumber
    \/ CleanNumberString
    \/ ParseDateString
    \/ ExtractWinningNumbers
    \/ ExtractLatestRound
    \/ ValidateNumbers

SpecUtils == InitUtils /\ [][NextUtils]_vars

\* The call of fn on vin has returned or raised.
Called(fn) == vout # Idle /\ vin.fn = fn

(***************************************************************************)
(* The record invariants, stated on their own                              *)
(***************************************************************************)
PairwiseDistinct(w) == \A i, j \in 1..Len(w) : i # j => w[i] # w[j]

\* Invariant 1: exactly 6 winning numbers, pairwise distinct, each in [1,45].
Invariant1(w) == Len(w) = 6 /\ (\A i \in 1..Len(w) : w[i] \in 1..45) /\ PairwiseDistinct(w)

\* Invariant 2: the bonus number in [1,45] and not among the winning numbers.
Invariant2(w, b) == b \in 1..45 /\ \A i \in 1..Len(w) : w[i] # b

\* Invariant 3: a real calendar date written YYYY-MM-DD, zero-padded.
CanonicalDate(s) ==
    /\ Len(s) = 10
    /\ \A k \in {1, 2, 3, 4, 6, 7, 9, 10} : s[k] \in Digits
    /\ s[5] = "-" /\ s[8] = "-"
    /\ LET y == IntOf(SubSeq(s, 1, 4))
           m == IntOf(SubSeq(s, 6, 7))
           d == IntOf(SubSeq(s, 9, 10))
       IN  y >= 1 /\ m \in 1..12 /\ d >= 1 /\ d <= DaysInMonth(y, m)

\* Invariant 4: both prize fields non-negative.
Invariant4(n, a) == n >= 0 /\ a >= 0

RecordInvariants(d) ==
    /\ Invariant1(d.winning_numbers)
    /\ Invariant2(d.winning_numbers, d.bonus_number)
    /\ CanonicalDate(d.draw_date)
    /\ Invariant4(d.first_prize_winners, d.first_prize_amount)

\* The invariant an error message speaks of.
InvariantOf(e) ==
    CASE e \in {ErrWinningCount, ErrWinningRange, ErrWinningDuplicate} -> 1
      [] e \in {ErrBonusRange, ErrBonusDuplicate} -> 2
      [] e = ErrDateFormat -> 3
      [] e \in {ErrWinners, ErrAmount} -> 4
      [] OTHER -> 0

\* The lowest-numbered invariant the arguments violate, 0 when none.
LowestViolated(d) ==
    IF ~Invariant1(d.winning_numbers) THEN 1
    ELSE IF ~Invariant2(d.winning_numbers, d.bonus_number) THEN 2
    ELSE IF ~CanonicalDate(d.draw_date) THEN 3
    ELSE IF ~Invariant4(d.first_prize_winners, d.first_prize_amount) THEN 4
    ELSE 0

\* A date with a 4-digit year, and a month and a day each written with or
\* without its leading zero (the day also with a blank in its place), that
\* exists in the calendar.
MonthTexts == { <<c>> : c \in NonZero } \cup { <<"0", c>> : c \in NonZero }
                \cup { <<"1", c>> : c \in {"0", "1", "2"} }
DayTexts == { <<c>> : c \in NonZero } \cup { <<"0", c>> : c \in NonZero }
              \cup { <<" ", c>> : c \in NonZero }
              \cup { <<a, c>> : a \in {"1", "2"}, c \in Digits }
              \cup { <<"3", "0">>, <<"3", "1">> }

LenientDate(s) ==
    \E ml \in 1..2, dl \in 1..2 :
        /\ Len(s) = 6 + ml + dl
        /\ \A k \in 1..4 : s[k] \in Digits
        /\ s[5] = "-" /\ s[6 + ml] = "-"
        /\ SubSeq(s, 6, 5 + ml) \in MonthTexts
        /\ SubSeq(s, 7 + ml, 6 + ml + dl) \in DayTexts
        /\ IntOf(SubSeq(s, 1, 4)) >= 1
        /\ IntOf(SelectSeq(SubSeq(s, 7 + ml, 6 + ml + dl), IsDigit))
              <= DaysInMonth(IntOf(SubSeq(s, 1, 4)), IntOf(SubSeq(s, 6, 5 + ml)))

\* The checks of the constructor in the order the code makes them, each with
\* the error it raises: which of them the arguments fail.
FailedChecks(d) ==
    LET w == d.winning_numbers
        b == d.bonus_number
    IN  << <<Len(w) # 6, ErrWinningCount>>,
           <<\E i \in 1..Len(w) : w[i] \notin 1..45, ErrWinningRange>>,
           <<b \notin 1..45, ErrBonusRange>>,
           <<\E i \in 1..Len(w) : w[i] = b, ErrBonusDuplicate>>,
           <<~PairwiseDistinct(w), ErrWinningDuplicate>>,
           <<~LenientDate(d.draw_date), ErrDateFormat>>,
           <<d.first_prize_winners < 0, ErrWinners>>,
           <<d.first_prize_amount < 0, ErrAmount>> >>

FirstFailedCheck(d) ==
    LET f == FailedChecks(d)
        bad == {k \in 1..Len(f) : f[k][1]}
    IN  IF bad = {} THEN NoError
        ELSE f[CHOOSE k \in bad : \A j \in bad : k <= j][2]

Constructed == vout # Idle

(***************************************************************************)
(* The run, read back from its state                                       *)
(***************************************************************************)
\* The round the j-th attempt of the run was made for.
RoundAt(j) == args.start + j - 1

\* The attempts that are over: those of the rounds before round_num.
Completed == IF round_num = 0 THEN {} ELSE 1..(round_num - args.start)

\* What the extractions give on each page a round may be served, and what
\* _parse_round_data makes of the page for each round.
Extracted ==
    [k \in RoundPages |-> [winning_numbers |-> extract_winning_numbers(Pages[k]),
                           bonus_number |-> extract_bonus_number(Pages[k]),
                           draw_date |-> extract_draw_date(Pages[k]),
                           prize |-> extract_prize_info(Pages[k])]]

Parsed ==
    [k \in RoundPages |-> [r \in 1..MaxRound |-> parse_round_data(Pages[k], r)]]

\* The attempt that served page k (0: no response after every retry) for
\* round r fails: the fetch failed, an extraction gave nothing, or a
\* validation failed.
Fails(k, r) == k = 0 \/ Parsed[k][r].kind # "record"

\* The round numbers of a list of records.
RoundsOf(recs) == [i \in 1..Len(recs) |-> recs[i].round_num]

Increasing(ns) == \A i, j \in 1..Len(ns) : i < j => ns[i] < ns[j]

\* scrape_all_rounds returned to main.
Returned == pc = "exit" /\ outcome.assigned

\* The calls, the backoff sleeps and the pauses of a list of events.
CallsOf(ev) == SelectSeq(ev, LAMBDA e : e.ev = "call")
SleepsOf(ev) == SelectSeq(ev, LAMBDA e : e.ev = "sleep")
PausesOf(ev) == SelectSeq(ev, LAMBDA e : e.ev = "pause")

(***************************************************************************)
(* C1: each record in the list scrape_all_rounds returns satisfies the     *)
(* four record invariants (six pairwise-distinct winning numbers in 1..45; *)
(* a bonus in 1..45 not among them; a real date in zero-padded YYYY-MM-DD; *)
(* winners and amount not negative), and holds what the extractions gave   *)
(* on the page served for its round: no round whose extracted data         *)
(* violates an invariant is in the result.                                 *)
(***************************************************************************)
C1_RecordsSatisfyInvariants ==
    /\ \A i \in 1..Len(results) : RecordInvariants(results[i])
    /\ \A i \in 1..Len(outcome.lotto_data) : RecordInvariants(outcome.lotto_data[i])
    /\ \A i \in 1..Len(results) :
          \E j \in 1..Len(served) :
              /\ RoundAt(j) = results[i].round_num
              /\ served[j] # 0
              /\ results[i].winning_numbers = Extracted[served[j]].winning_numbers
              /\ <<results[i].bonus_number>> = Extracted[served[j]].bonus_number
              /\ results[i].draw_date = Extracted[served[j]].draw_date

\* A run that returned two records, one of them of a page whose date is
\* written without zero padding.
C1_Witness ==
    /\ Returned
    /\ Len(outcome.lotto_data) >= 2
    /\ \E j \in 1..Len(served) : served[j] = 2
    /\ \E i \in 1..Len(outcome.lotto_data) :
          outcome.lotto_data[i].draw_date = <<"2", "0", "2", "4", "-", "0", "1", "-", "0", "5">>

(***************************************************************************)
(* C2: with an explicit end, scrape_all_rounds never aborts on a round's   *)
(* failure and never raises for it: whatever set F of rounds of            *)
(* [start, end] fails, every later round is still attempted and the run    *)
(* returns exactly the records of the rounds of [start, end] not in F, in  *)
(* increasing round order, the rounds of F being recorded as failed.       *)
(***************************************************************************)
C2_NoAbortOnRoundFailure ==
    args.end # <<>> =>
        \* no failure of a round leaves the run
        /\ outcome.cause # "NetworkError"
        /\ pc = "exit" => (outcome.assigned \/ outcome.cause = "KeyboardInterrupt")
        /\ Returned =>
              LET window == {r \in args.start..end : TRUE}
                  F == {RoundAt(j) : j \in {i \in 1..Len(served) : Fails(served[i], RoundAt(i))}}
              IN  \* every round of the window was attempted, once, in order
                  /\ Len(served) = Cardinality(window)
                  \* the records returned are those of the window minus F
                  /\ Range(RoundsOf(outcome.lotto_data)) = window \ F
                  /\ Increasing(RoundsOf(outcome.lotto_data))
                  /\ \A i \in 1..Len(outcome.lotto_data) :
                        [kind |-> "record", data |-> outcome.lotto_data[i]]
                            = Parsed[served[outcome.lotto_data[i].round_num - args.start + 1]]
                                    [outcome.lotto_data[i].round_num]
                  \* and the rounds of F those recorded as failed
                  /\ Range(failed_rounds) = F
                  /\ Increasing(failed_rounds)

\* The window [1, 3] with round 2's fetch failing after every retry: rounds 1
\* and 3 are returned in that order and round 2 is recorded as failed.
C2_Witness ==
    /\ Returned
    /\ args.start = 1 /\ args.end = <<3>>
    /\ served[2] = 0
    /\ RoundsOf(outcome.lotto_data) = <<1, 3>>
    /\ failed_rounds = <<2>>

(***************************************************************************)
(* C3: with max_attempts = N >= 1 and base delay d, an operation that      *)
(* fails on every call is invoked exactly N times, with exactly N-1 sleeps *)
(* between consecutive attempts, the k-th lasting d * 2^(k-1); the failure *)
(* of the last call is then propagated unchanged and no sleep follows it.  *)
(***************************************************************************)

C3_RetryExhaustion ==
    (rin # Idle /\ rst.status = "raised" /\ rin.max_retries >= 1) =>
        LET N == rin.max_retries
            ev == rst.events
        IN  /\ Len(CallsOf(ev)) = N
            /\ Len(SleepsOf(ev)) = N - 1
            /\ \A k \in 1..(N - 1) : SleepsOf(ev)[k].secs = rin.delay * Pow2(k - 1)
            \* calls and sleeps alternate, a call first and last
            /\ Len(ev) = 2 * N - 1
            /\ \A i \in 1..Len(ev) : ev[i].ev = (IF i % 2 = 1 THEN "call" ELSE "sleep")
            \* what is raised is the exception of the N-th call
            /\ rst.last_exception.id = N
            /\ rst.last_exception.kind \in ExceptionKinds

\* Three attempts, all failed: three calls and the sleeps d, 2d.
C3_Witness ==
    /\ rin # Idle
    /\ rin.max_retries = 3
    /\ rst.status = "raised"
    /\ Len(CallsOf(rst.events)) = 3
    /\ Len(SleepsOf(rst.events)) = 2

(***************************************************************************)
(* C4: the pause of REQUEST_DELAY is imposed after every round attempt,    *)
(* whether it ended in success or in failure: when the attempt of a round  *)
(* is over, exactly one pause has been made since it began, and it is the  *)
(* last thing that happened before the next round's first fetch.           *)
(***************************************************************************)
C4_PauseAfterEveryAttempt ==
    pc = "round_done" =>
        /\ Len(PausesOf(log)) = 1
        /\ log[Len(log)] = Pause(REQUEST_DELAY)

ValidationFails(k) ==
    /\ k # 0
    /\ Extracted[k].winning_numbers # <<>>
    /\ Extracted[k].bonus_number # NoInt
    /\ Extracted[k].draw_date # None /\ Extracted[k].draw_date # <<>>
    /\ \/ ~Invariant1(Extracted[k].winning_numbers)
       \/ ~Invariant2(Extracted[k].winning_numbers, Extracted[k].bonus_number[1])
       \/ ~LenientDate(Extracted[k].draw_date)

LookupFailed == args.end = <<>> /\ served = <<>> /\ req.status = "raised"

NoRoundOn(page) ==
    IF page.select /\ page.options # <<>>
    THEN page.options[1] # <<>> /\ ~py_int(page.options[1][1]).ok
    ELSE page.meta = <<>> \/ ~RoundSearch(page.meta[1]).found

Interrupted == pc = "exit" /\ outcome.cause = "KeyboardInterrupt"

C7_InterruptPreservesResults ==
    Interrupted => outcome.lotto_data = results

\* C7 as amended: the run stops and nothing is returned: main's lotto_data is
\* never assigned, main exits with code 1 and saves no file, the successes
\* and failures accumulated are lost with the call.  Up to the interrupt no
\* round is half-applied: each round before the current one is in exactly
\* one of the two lists, once, and the current and later rounds in neither.
C7_InterruptLosesResults ==
    /\ Interrupted => outcome = Exit(1, "KeyboardInterrupt")
    /\ LET done == {RoundAt(j) : j \in Completed}
       IN  /\ Range(RoundsOf(results)) \cup Range(failed_rounds) = done
           /\ Range(RoundsOf(results)) \cap Range(failed_rounds) = {}
           /\ Len(results) + Len(failed_rounds) = Cardinality(done)

\* An interrupt after one round succeeded and one failed, in the middle of
\* the next round's attempt.
C7_Witness ==
    /\ Interrupted
    /\ Len(results) = 1 /\ Len(failed_rounds) = 1
    /\ Len(served) = 3
    /\ ~outcome.assigned

(***************************************************************************)
(* C8: for a fetched round page, if any one of the four extractions        *)
(* (winning numbers, bonus number, draw date, prize info) yields no usable *)
(* value, no record is constructed for the round; so a page with valid     *)
(* numbers, bonus and date but neither a first-prize row nor a prize in    *)
(* the description produces no record.                                     *)
(***************************************************************************)
\* One of the winning numbers, the bonus number and the draw date is missing
\* from page k.
Missing(k) ==
    \/ Extracted[k].winning_numbers = <<>>
    \/ Extracted[k].bonus_number = NoInt
    \/ Extracted[k].draw_date = None \/ Extracted[k].draw_date = <<>>

\* The page has neither a first-prize row nor a prize in its description.
NoPrize(page) ==
    /\ ~page.table \/ FirstPrizeRows(page) = {}
    /\ page.meta = <<>> \/ ~PrizeSearch(page.meta[1]).found

C9_LowestViolatedReported ==
    (Constructed /\ (CanonicalDate(vin.draw_date) <=> LenientDate(vin.draw_date)))
        => InvariantOf(vout.r.error) = LowestViolated(vin)

\* C9 as amended: the constructor makes its checks in the order count, range
\* of the winning numbers, range of the bonus, bonus among the winning
\* numbers, duplicates among the winning numbers, date, winners, amount, and
\* raises the error of the first check that fails; so 5 or fewer winning
\* numbers give the count error, a bonus equal to a winning number gives the
\* disjointness error (also when the winning numbers hold a duplicate), and
\* "2002/12/07" gives the date error when the numbers are valid.
C9_FirstFailedCheckReported ==
    Constructed =>
        /\ vout.r.error = FirstFailedCheck(vin)
        /\ vout.r.ok = (FirstFailedCheck(vin) = NoError)
        /\ (Len(vin.winning_numbers) <= 5 => vout.r.error = ErrWinningCount)

\* C9's case: winning numbers holding a duplicate together with a bonus equal
\* to one of them, reported as the bonus duplicate.
C9_Witness ==
    /\ Constructed
    /\ Len(vin.winning_numbers) = 6
    /\ ~PairwiseDistinct(vin.winning_numbers)
    /\ vin.bonus_number \in Range(vin.winning_numbers)
    /\ vout.r.error = ErrBonusDuplicate

(***************************************************************************)
(* C10: constructing a LottoData succeeds if and only if all four          *)
(* invariants hold, and a draw_date that is not a zero-padded YYYY-MM-DD   *)
(* real date fails with the date-format error.                             *)
(***************************************************************************)
C10_ConstructIffInvariants ==
    Constructed =>
        (vout.r.ok <=> RecordInvariants(vin))

(***************************************************************************)
(* C11: validate_winning_numbers(numbers) returns true if and only if      *)
(* numbers has length exactly 6, every element is in [1,45] and the        *)
(* elements are pairwise distinct.                                         *)
(***************************************************************************)
C11_ValidateWinningIff ==
    Called("validate_winning_numbers") =>
        /\ vout.kind = "returned"
        /\ vout.value <=> /\ Len(vin.numbers) = 6
                          /\ \A i \in 1..Len(vin.numbers) : vin.numbers[i] \in 1..45
                          /\ PairwiseDistinct(vin.numbers)

\* Six numbers in range, two of them alike: false.
C11_Witness ==
    /\ Called("validate_winning_numbers")
    /\ vin.numbers = <<1, 2, 3, 4, 5, 1>>
    /\ vout.value = FALSE

(***************************************************************************)
(* C12: validate_bonus_number(bonus, winning_numbers) returns true if and  *)
(* only if bonus is in [1,45] and is not an element of winning_numbers.    *)
(***************************************************************************)
C12_ValidateBonusIff ==
    Called("validate_bonus_number") =>
        /\ vout.kind = "returned"
        /\ vout.value <=> /\ vin.bonus >= 1 /\ vin.bonus <= 45
                          /\ \A i \in 1..Len(vin.winning_numbers) :
                                vin.winning_numbers[i] # vin.bonus

\* A bonus in range that is one of the winning numbers: false.
C12_Witness ==
    /\ Called("validate_bonus_number")
    /\ vin.bonus = 6
    /\ vin.winning_numbers = <<1, 2, 3, 4, 5, 6>>
    /\ vout.value = FALSE

(***************************************************************************)
(* C13: clean_number_string never fails: for every text it returns the     *)
(* non-negative integer formed by the text's digits in their order, 0      *)
(* when the text is empty, None or without a digit, and cleaning the       *)
(* decimal rendering of its result returns the same integer.               *)
(***************************************************************************)
\* str(n) of an integer n >= 0.
RECURSIVE py_str(_)
py_str(n) ==
    LET c == <<"0", "1", "2", "3", "4", "5", "6", "7", "8", "9">>[(n % 10) + 1]
    IN  IF n < 10 THEN <<c>> ELSE py_str(n \div 10) \o <<c>>

\* The decimal rendering of the integer the digits d form: d without its
\* leading zeros, "0" when nothing is left.
Rendering(d) ==
    LET k == RunEnd(d, 1, {"0"})
    IN  IF k > Len(d) THEN <<"0">> ELSE SubSeq(d, k, Len(d))

\* The value is the integer of the digits of vin, and cleaning its rendering
\* gives it back.
CleanedValue(value) ==
    /\ value >= 0
    /\ py_str(value) = Rendering(vin.digits)
    /\ clean_number_string(py_str(value)) = value

\* As stated: the call returns, whatever the text.
C13_NeverFails ==
    Called("clean_number_string") =>
        vout.kind = "returned" /\ CleanedValue(vout.value)

\* Amended: with at most 4300 digits in the text the call returns that
\* integer; with more, int() raises ValueError and so does the call.
C13_CleanNumberString ==
    Called("clean_number_string") =>
        IF Len(vin.digits) <= MaxStrDigits
        THEN vout.kind = "returned" /\ CleanedValue(vout.value)
        ELSE vout = [kind |-> "raised", exc |-> "ValueError"]

\* "abc123def" gives 123.
C13_Witness ==
    /\ Called("clean_number_string")
    /\ vin.text # None
    /\ vin.text = <<"a", "b", "c", "1", "2", "3", "d", "e", "f">>
    /\ vout = [kind |-> "returned", value |-> 123]

(***************************************************************************)
(* C14: parse_date_string turns y s m s d, for a year y of four digits, a  *)
(* month m and a day d of one or two digits and a separator s among ".",   *)
(* "-" and "/", into y-mm-dd with month and day padded with a zero to two  *)
(* digits; an input none of the three patterns matches comes back          *)
(* unchanged.                                                              *)
(***************************************************************************)
\* Four digits, a separator, one or two digits, the same separator and a
\* digit stand somewhere in s.
HoldsDate(s) ==
    \E i \in 1..Len(s), ml \in 1..2, sep \in {".", "-", "/"} :
        /\ i + 5 + ml + 1 <= Len(s)
        /\ \A k \in 0..3 : s[i + k] \in Digits
        /\ s[i + 4] = sep
        /\ \A k \in 1..ml : s[i + 4 + k] \in Digits
        /\ s[i + 5 + ml] = sep
        /\ s[i + 6 + ml] \in Digits

TwoDigits(t) == IF Len(t) = 1 THEN <<"0", t[1]>> ELSE t

C14_ParseDateString ==
    Called("parse_date_string") =>
        /\ vout.kind = "returned"
        /\ vin.form = "y s m s d" =>
              vout.value = vin.parts.y \o <<"-">> \o TwoDigits(vin.parts.m)
                             \o <<"-">> \o TwoDigits(vin.parts.d)
        /\ ~HoldsDate(vin.date_str) => vout.value = vin.date_str

\* "2024/1/1" has become "2024-01-01".
C14_Witness ==
    /\ Called("parse_date_string")
    /\ vin.form = "y s m s d"
    /\ vin.date_str = <<"2", "0", "2", "4", "/", "1", "/", "1">>
    /\ vout.value = <<"2", "0", "2", "4", "-", "0", "1", "-", "0", "1">>

(***************************************************************************)
(* C15: the process started by main() exits with a non-zero exit code      *)
(* whenever the scraping run produces no record and whenever the records   *)
(* fail validate_data; in neither case is a csv file written.              *)
(***************************************************************************)
C15_ExitCodeWithoutData ==
    (Returned /\ (outcome.lotto_data = <<>> \/ ~validate_data(outcome.lotto_data)))
        => outcome.exit_code # 0 /\ ~outcome.csv

\* Three rounds attempted, none gave a record: exit code 1, no csv.
C15_Witness ==
    /\ Returned
    /\ Len(failed_rounds) = 3
    /\ outcome.lotto_data = <<>>
    /\ outcome.exit_code = 1
    /\ ~outcome.csv

UsableValues(balls) ==
    LET usable == SelectSeq(balls, LAMBDA b : b.value >= 1 /\ b.value <= 45)
    IN  [i \in 1..Len(usable) |-> usable[i].value]

C17_FallbackChain ==
    Called("extract_latest_round") =>
        /\ vout.value = IF vin.option > 0 THEN vin.option
                        ELSE IF vin.meta > 0 THEN vin.meta
                        ELSE DefaultLatestRound
        /\ vout.value > 0

(***************************************************************************)
(* C18: scrape_all_rounds(start, end) runs the pipeline once for each      *)
(* round of [start, end], in increasing order, one request at a time; at   *)
(* every point of the run the successful rounds and the failed rounds are  *)
(* disjoint and together are the rounds attempted so far, and when the run *)
(* completes len(successes) + len(failures) = max(0, end - start + 1),     *)
(* both lists increasing by round number.                                  *)
(***************************************************************************)
C18_SequentialPartition ==
    round_num # 0 =>
        LET successes == RoundsOf(results)
            attempted == args.start..(round_num - 1)
        IN  /\ Range(successes) \cap Range(failed_rounds) = {}
            /\ Range(successes) \cup Range(failed_rounds) = attempted
            /\ Increasing(successes) /\ Increasing(failed_rounds)
            \* one fetch outcome for each round attempted, and one more at
            \* most, that of the round under way
            /\ Len(served) = Cardinality(attempted)
                             + (IF pc \in {"round_parse", "round_pause", "round_done"}
                                THEN 1 ELSE 0)
               \/ (pc = "exit" /\ Len(served) = Cardinality(attempted) + 1)
            /\ round_num <= end + 1 \/ round_num = args.start
            /\ Returned =>
                  /\ round_num = IF end >= args.start THEN end + 1 ELSE args.start
                  /\ Len(results) + Len(failed_rounds)
                       = IF end - args.start + 1 > 0 THEN end - args.start + 1 ELSE 0

\* The run over rounds 2 and 3 has completed, round 2 failed and round 3
\* succeeded.
C18_Witness ==
    /\ Returned
    /\ args.start = 2 /\ end = 3
    /\ failed_rounds = <<2>>
    /\ RoundsOf(results) = <<3>>
    /\ Len(served) = 2

(***************************************************************************)
(* C19: the --delay and --max-retries overrides of the command line take   *)
(* effect in the run: for override values d and m the pause between round  *)
(* requests is d, and a fetch that keeps failing is attempted exactly m     *)
(* times for the round before the round is declared failed.                *)
(***************************************************************************)
C19_OverridesTakeEffect ==
    /\ \A i \in 1..Len(log) : log[i].ev = "pause" => log[i].secs = args.delay
    /\ (pc = "round_done" /\ served[Len(served)] = 0) =>
          Len(CallsOf(log)) = args.max_retries

(***************************************************************************)
(* C20: for every list of integers w and integer b,                        *)
(* validate_winning_numbers(w) and validate_bonus_number(b, w) are both    *)
(* true if and only if LottoData._validate_numbers accepts (w, b); no       *)
(* violation of the numbers is left for the constructor to find after both *)
(* checks passed.                                                          *)
(***************************************************************************)
C20_PreChecksAgreeWithRecord ==
    Called("validate_numbers") =>
        ((vout.winning_ok /\ vout.bonus_ok) <=> vout.error = NoError)

\* Six valid numbers and a bonus that is one of them: the second check and
\* the constructor both refuse.
C20_Witness ==
    /\ Called("validate_numbers")
    /\ vin.winning_numbers = <<1, 2, 3, 4, 5, 6>> /\ vin.bonus = 6
    /\ vout.winning_ok /\ ~vout.bonus_ok
    /\ vout.error = ErrBonusDuplicate

====
